---------------------------- MODULE Spec2Model ----------------------------
(***************************************************************************)
(* PokerFileSorter: the filename classifier, the flat-file ledgers, the    *)
(* destination gateway and the concurrent sort / upload batches of         *)
(* AbstractFileSorter (pkrfilesorter/sorters/abstract.py) and of           *)
(* S3FileSorter (pkrfilesorter/s3_file_sorter.py).                         *)
(*                                                                         *)
(* Strings are sequences of one-character strings, so that the regular     *)
(* expressions, the slices and the f-strings of the code are computed      *)
(* character by character.                                                 *)
(***************************************************************************)
EXTENDS Integers, Sequences, FiniteSets, Bags, TLC

(***************************************************************************)
(* Bounds of the model.                                                    *)
(***************************************************************************)
\* the largest number of .txt files in the source tree
MaxFiles == 2
\* the largest number of batch runs started in one behaviour
MaxRuns == 2

(***************************************************************************)
(* String literals of the code.                                            *)
(***************************************************************************)
StrSummary == <<"s","u","m","m","a","r","y">>
StrPlay == <<"p","l","a","y">>
StrOmahaLower == <<"o","m","a","h","a">>
StrOmahaUpper == <<"O","m","a","h","a">>
StrPositioning == <<"p","o","s","i","t","i","o","n","i","n","g">>
StrSummariesRaw == <<"s","u","m","m","a","r","i","e","s","/","r","a","w">>
StrHistoriesRaw == <<"h","i","s","t","o","r","i","e","s","/","r","a","w">>
StrSummaries == <<"s","u","m","m","a","r","i","e","s">>
StrCash == <<"/","c","a","s","h","/">>
StrTxt == <<".","t","x","t">>
StrData == <<"d","a","t","a","/">>
StrZeros == <<"0","0","0","0","0","0","0","0","0">>
StrSlash == <<"/">>
\* Python's None, where the code stores it in place of a string
None == <<"<None>">>

Digits == {"0","1","2","3","4","5","6","7","8","9"}
Letters == {"a","b","c","d","e","f","g","h","i","j","k","l","m","n","o","p","q","r","s","t","u","v","w","x","y","z","A","B","C","D","E","F","G","H","I","J","K","L","M","N","O","P","Q","R","S","T","U","V","W","X","Y","Z"}
\* the class [\w\s] of cash_game_pattern, over the ASCII characters of the model
WordOrSpace == Letters \cup Digits \cup {"_", " "}

(***************************************************************************)
(* Python string primitives.                                               *)
(***************************************************************************)
Min(a, b) == IF a < b THEN a ELSE b

\* s[a:b], 0-based, clipped to the string
Slice(s, a, b) == SubSeq(s, a + 1, Min(b, Len(s)))

\* s[a:]
SliceFrom(s, a) == SubSeq(s, a + 1, Len(s))

\* sub in s
Contains(s, sub) ==
    \E i \in 1..(Len(s) - Len(sub) + 1) : SubSeq(s, i, i + Len(sub) - 1) = sub

\* s.startswith(pre)
StartsWith(s, pre) == Len(s) >= Len(pre) /\ SubSeq(s, 1, Len(pre)) = pre

\* s.endswith(suf)
EndsWith(s, suf) ==
    Len(s) >= Len(suf) /\ SubSeq(s, Len(s) - Len(suf) + 1, Len(s)) = suf

\* s.split("_")[0]
SplitFirst(s) ==
    LET cut == {i \in 1..Len(s) : s[i] = "_"}
    IN  IF cut = {} THEN s
        ELSE SubSeq(s, 1, (CHOOSE i \in cut : \A j \in cut : i <= j) - 1)

\* s.strip(), the only whitespace of the model being the space
Strip(s) ==
    LET ink == {i \in 1..Len(s) : s[i] # " "}
    IN  IF ink = {} THEN <<>>
        ELSE SubSeq(s, CHOOSE i \in ink : \A j \in ink : i <= j,
                       CHOOSE i \in ink : \A j \in ink : i >= j)

\* s.replace(" ", "_")
ReplaceSpaces(s) == [i \in 1..Len(s) |-> IF s[i] = " " THEN "_" ELSE s[i]]

\* the end of the longest run of characters of cls that starts at position i
RunEnd(s, i, cls) ==
    LET stop == {j \in i..Len(s) : s[j] \notin cls}
    IN  IF stop = {} THEN Len(s)
        ELSE (CHOOSE j \in stop : \A k \in stop : j <= k) - 1

(***************************************************************************)
(* The three regular expressions of get_info_from_filename, as re.search   *)
(* runs them: the leftmost start, greedy quantifiers with backtracking.    *)
(* Each returns [found, ...groups].                                        *)
(***************************************************************************)
\* tournament_pattern = \((\d+)\)_
TournamentAt(s, i) ==
    /\ s[i] = "("
    /\ LET e == RunEnd(s, i + 1, Digits)
       IN  /\ e >= i + 1
           /\ e + 2 <= Len(s)
           /\ s[e + 1] = ")"
           /\ s[e + 2] = "_"

tournament_pattern(s) ==
    LET starts == {i \in 1..Len(s) : TournamentAt(s, i)}
    IN  IF starts = {} THEN [found |-> FALSE, g1 |-> <<>>]
        ELSE LET i == CHOOSE a \in starts : \A b \in starts : a <= b
             IN  [found |-> TRUE, g1 |-> SubSeq(s, i + 1, RunEnd(s, i + 1, Digits))]

\* cash_game_pattern = _([\w\s]+)(\d{2})_ : group 1 is s[i+1..k]
CashAt(s, i, k) ==
    /\ s[i] = "_"
    /\ k >= i + 1
    /\ k + 3 <= Len(s)
    /\ \A p \in (i + 1)..k : s[p] \in WordOrSpace
    /\ s[k + 1] \in Digits
    /\ s[k + 2] \in Digits
    /\ s[k + 3] = "_"

cash_game_pattern(s) ==
    LET starts == {i \in 1..Len(s) : \E k \in 1..Len(s) : CashAt(s, i, k)}
    IN  IF starts = {} THEN [found |-> FALSE, g1 |-> <<>>, g2 |-> <<>>]
        ELSE LET i  == CHOOSE a \in starts : \A b \in starts : a <= b
                 ks == {k \in 1..Len(s) : CashAt(s, i, k)}
                 k  == CHOOSE a \in ks : \A b \in ks : a >= b
             IN  [found |-> TRUE, g1 |-> SubSeq(s, i + 1, k),
                  g2 |-> SubSeq(s, k + 1, k + 2)]

\* cash_game_pattern2 = (\d{4})(\d{2})(\d{2})_([A-Za-z]+)
LegacyAt(s, i) ==
    /\ i + 9 <= Len(s)
    /\ \A p \in i..(i + 7) : s[p] \in Digits
    /\ s[i + 8] = "_"
    /\ s[i + 9] \in Letters

cash_game_pattern2(s) ==
    LET starts == {i \in 1..Len(s) : LegacyAt(s, i)}
    IN  IF starts = {} THEN [found |-> FALSE, g4 |-> <<>>]
        ELSE LET i == CHOOSE a \in starts : \A b \in starts : a <= b
             IN  [found |-> TRUE, g4 |-> SubSeq(s, i + 9, RunEnd(s, i + 9, Letters))]

\* date_str[:4] / date_str[4:6] / date_str[6:]
DatePath(filename) ==
    LET date_str == SplitFirst(filename)
    IN  Slice(date_str, 0, 4) \o StrSlash \o Slice(date_str, 4, 6)
            \o StrSlash \o SliceFrom(date_str, 6)

\* Python's "not x" for x in {"True", "False", "None"}
PyNot(x) == x # "True"

(***************************************************************************)
(* AbstractFileSorter.get_info_from_filename                               *)
(***************************************************************************)
\* the if / elif chain testing the named cash-game pattern first
matched_branch_cash_first(match1, match2, match3) ==
    IF match2 THEN "match2"
    ELSE IF match1 THEN "match1"
    ELSE IF match3 THEN "match3"
    ELSE "else"

\* the if / elif chain without its elif match3 branch
matched_branch_two_patterns(match1, match2, match3) ==
    IF match1 THEN "match1"
    ELSE IF match2 THEN "match2"
    ELSE "else"

\* if match1: ... elif match2: ... elif match3: ... else: ... (lines 88-104)
matched_branch(match1, match2, match3) ==
    IF match1 THEN "match1"
    ELSE IF match2 THEN "match2"
    ELSE IF match3 THEN "match3"
    ELSE "else"

\* is_error with only an unknown category counted as the fourth flag
is_error_unknown_only(is_play, is_omaha, is_positioning, is_tournament) ==
    is_play \/ is_omaha \/ is_positioning \/ is_tournament = "None"

\* any((is_play, is_omaha, is_positioning, not is_tournament)) (line 112)
is_error(is_play, is_omaha, is_positioning, is_tournament) ==
    is_play \/ is_omaha \/ is_positioning \/ PyNot(is_tournament)

\* lines 81-114, given the date and the results of the three searches
file_info_from_matches(filename, date_path, match1, match2, match3) ==
    LET file_type == IF Contains(filename, StrSummary)
                     THEN StrSummariesRaw ELSE StrHistoriesRaw
        is_play == Contains(filename, StrPlay)
        is_omaha == Contains(filename, StrOmahaLower) \/ Contains(filename, StrOmahaUpper)
        is_positioning == Contains(filename, StrPositioning)
        branch == matched_branch(match1.found, match2.found, match3.found)
        raw_key_suffix ==
            CASE branch = "match1" ->
                     file_type \o StrSlash \o date_path \o StrSlash \o match1.g1 \o StrTxt
              [] branch = "match2" ->
                     file_type \o StrSlash \o date_path \o StrCash
                         \o ReplaceSpaces(Strip(match2.g1)) \o StrSlash \o match2.g2 \o StrTxt
              [] branch = "match3" ->
                     file_type \o StrSlash \o date_path \o StrCash
                         \o Strip(match3.g4) \o StrSlash \o StrZeros \o StrTxt
              [] OTHER -> None
        is_tournament ==
            CASE branch = "match1" -> "True"
              [] branch \in {"match2", "match3"} -> "False"
              [] OTHER -> "None"
    IN  [date |-> date_path,
         raw_key_suffix |-> raw_key_suffix,
         is_tournament |-> is_tournament,
         is_play |-> is_play,
         is_omaha |-> is_omaha,
         is_positioning |-> is_positioning,
         is_error |-> is_error(is_play, is_omaha, is_positioning, is_tournament)]

\* lines 76-84: the date and the three searches, each made once
get_info_from_filename(filename) ==
    file_info_from_matches(filename, DatePath(filename), tournament_pattern(filename),
                           cash_game_pattern(filename), cash_game_pattern2(filename))

(***************************************************************************)
(* S3FileSorter.get_info_from_filename: two patterns, lower-case "omaha"   *)
(* only, keys under data/.                                                 *)
(***************************************************************************)
\* lines 58-83, given the date and the results of the two searches
s3_file_info_from_matches(filename, date_path, match1, match2) ==
    LET file_type == IF Contains(filename, StrSummary)
                     THEN StrSummaries ELSE StrHistoriesRaw
        destination_key ==
            IF match1.found
            THEN StrData \o file_type \o StrSlash \o date_path \o StrSlash
                     \o match1.g1 \o StrTxt
            ELSE IF match2.found
            THEN StrData \o file_type \o StrSlash \o date_path \o StrCash
                     \o ReplaceSpaces(Strip(match2.g1)) \o StrSlash \o match2.g2 \o StrTxt
            ELSE None
        is_tournament ==
            IF match1.found THEN "True"
            ELSE IF match2.found THEN "False"
            ELSE "None"
    IN  [date |-> date_path,
         destination_key |-> destination_key,
         is_tournament |-> is_tournament,
         is_play |-> Contains(filename, StrPlay),
         is_omaha |-> Contains(filename, StrOmahaLower),
         is_positioning |-> Contains(filename, StrPositioning)]

\* lines 54-60: the date and the two searches, each made once
s3_get_info_from_filename(filename) ==
    s3_file_info_from_matches(filename, DatePath(filename), tournament_pattern(filename),
                              cash_game_pattern(filename))


(***************************************************************************)
(* The source tree: one root directory; the .txt files a run can find.     *)
(***************************************************************************)
StrRoot == <<"s","r","c","/">>
\* a tournament history that may be transferred
FN_Tournament == <<"2","0","2","4","0","1","1","5","_","(","9","8","7",")","_","H","H",".","t","x","t">>
\* an Omaha tournament with the destination key of FN_Tournament
FN_OmahaTournament == <<"2","0","2","4","0","1","1","5","_","(","9","8","7",")","_","o","m","a","h","a",".","t","x","t">>
\* a tournament history under the corrupted "summary" prefix
FN_Corrupted == <<"s","u","m","m","a","r","y","2","0","2","4","0","1","1","6","_","(","5","5",")","_","H","H",".","t","x","t">>
\* FN_Corrupted without its prefix
FN_Repaired == <<"2","0","2","4","0","1","1","6","_","(","5","5",")","_","H","H",".","t","x","t">>
\* a cash-game history
FN_Cash == <<"2","0","2","4","0","1","1","5","_","M","y","T","a","b","l","e","0","5","_","H","H",".","t","x","t">>
\* a file no pattern matches
FN_Unknown == <<"n","o","t","e","s",".","t","x","t">>
FileNames == {FN_Tournament, FN_OmahaTournament, FN_Corrupted, FN_Repaired, FN_Cash, FN_Unknown}
\* six more files no pattern matches, for listings longer than 10 files
MoreNames == {<<c>> \o StrTxt : c \in {"a", "b", "c", "d", "e", "f"}}

\* os.path.join(root, filename)
PathJoin(root, filename) == root \o filename

(***************************************************************************)
(* State.                                                                  *)
(***************************************************************************)
VARIABLES
    sorter,         \* the class constructed: "abstract" (a subclass of AbstractFileSorter) or "s3"
    tree,           \* the filenames of the .txt files under source_dir
    objects,        \* the keys present at the destination gateway
    errorFiles,     \* error_files.txt, a bag of lines
    sortedFiles,    \* <sorted_files_record>, the session-sorted ledger, a bag of lines
    uploadedFiles,  \* uploaded_files.txt of S3FileSorter, a bag of lines
    orch,           \* the batch operation in progress, in the calling thread
    tasks,          \* the futures of the batch: filename -> the task's locals and position
    runs,           \* batch operations started so far
    hist,           \* history: what the current and the previous run did
    classified      \* a call of get_info_from_filename: its argument and its result

vars == <<sorter, tree, objects, errorFiles, sortedFiles, uploadedFiles, orch, tasks, runs, hist,
          classified>>

NoTasks == [f \in {} |-> 0]
\* no call of the classifier is under way
NotClassifying == [filename |-> <<>>, done |-> FALSE, info |-> <<>>, s3_info |-> <<>>]
IdleOrch == [pc |-> "idle", kind |-> "none", collected |-> {}]
NoRun == [kind |-> "none", clean |-> FALSE]
Finished == {"done", "failed"}
Waiting == {"pending"}

(***************************************************************************)
(* Ledger store: each check re-reads the whole file, each insert appends   *)
(* one line, reset truncates.                                              *)
(***************************************************************************)
\* key in get_error_files() / get_sorted_files() / get_uploaded_files()
InLedger(key, ledger) == BagIn(key, ledger)

\* file.write(f"{source_key}\n") on a file opened with "a"
AppendLine(ledger, key) == ledger (+) SetToBag({key})

\* reset_sorted_files opening the ledger without truncating it
reset_sorted_files_kept(ledger) == ledger

\* open(file_location, "w"); file.write("")
reset_sorted_files(ledger) == EmptyBag

(***************************************************************************)
(* Destination gateway of AbstractFileSorter: get_raw_key,                 *)
(* check_raw_key_exists and write_source_file_to_raw_file are abstract in  *)
(* the source; they follow the gateway contract: keys under data/, exists  *)
(* answers for the store's content, write puts the object or raises.       *)
(***************************************************************************)
get_raw_key(raw_key_suffix) == StrData \o raw_key_suffix

check_raw_key_exists(raw_key, store) == raw_key \in store

\* the outcomes of a write: TRUE the object is put, FALSE the gateway raises
WriteOutcomes == BOOLEAN

\* S3FileSorter.check_file_exists: head_object, ClientError -> False
check_file_exists(key, store) == key \in store

(***************************************************************************)
(* get_file_info                                                           *)
(***************************************************************************)
\* file_info with the keys get_file_info adds (lines 66-68)
with_source_key(filename, info) ==
    [source_key |-> PathJoin(StrRoot, filename),
     file_name |-> filename,
     raw_key_suffix |-> info.raw_key_suffix,
     is_error |-> info.is_error,
     policy |-> info.is_play \/ info.is_omaha \/ info.is_positioning]

get_file_info(filename) == with_source_key(filename, get_info_from_filename(filename))

\* info_dict with the keys get_file_info adds, and upload_file's error_condition
with_file_path(filename, info) ==
    [file_path |-> PathJoin(StrRoot, filename),
     file_name |-> filename,
     destination_key |-> info.destination_key,
     error_condition |-> info.is_play \/ info.is_omaha \/ info.is_positioning
                            \/ PyNot(info.is_tournament),
     policy |-> info.is_play \/ info.is_omaha \/ info.is_positioning]

s3_get_file_info(filename) == with_file_path(filename, s3_get_info_from_filename(filename))

(***************************************************************************)
(* Source repair pass: correct_source_files renames, in listing order,     *)
(* every listed file whose name starts with "summary" to filename[7:];     *)
(* os.replace overwrites a file that already has the new name.             *)
(***************************************************************************)
RECURSIVE ApplyRenames(_, _)
ApplyRenames(files, order) ==
    IF order = <<>> THEN files
    ELSE LET base == Head(order)
             new_filename == SliceFrom(base, 7)
         IN  ApplyRenames((files \ {base}) \cup {new_filename}, Tail(order))

\* the orders in which os.walk may list the files of S
Orders(S) ==
    {o \in [1..Cardinality(S) -> S] : \A i, j \in 1..Cardinality(S) : i # j => o[i] # o[j]}

\* the trees correct_source_files can leave
correct_source_files(files) ==
    LET corrupted_files == {f \in files : StartsWith(f, StrSummary)}
    IN  {ApplyRenames(files, o) : o \in Orders(corrupted_files)}

(***************************************************************************)
(* The worker pools.                                                       *)
(***************************************************************************)
\* ThreadPoolExecutor() of sort_files / sort_new_files: the default pool has
\* min(32, cpu_count + 4) workers, at least 5
DefaultWorkers == 5
\* ThreadPoolExecutor(max_workers=6) of upload_files
UploadWorkers == 6
\* ThreadPoolExecutor(max_workers=1) of upload_new_files
UploadNewWorkers == 1
\* get_source_files()[::-1][:10]
UploadSlice == 10

max_workers(kind) ==
    CASE kind = "upload_files" -> UploadWorkers
      [] kind = "upload_new_files" -> UploadNewWorkers
      [] OTHER -> DefaultWorkers

Kinds(cls) ==
    IF cls = "abstract" THEN {"sort_files", "sort_new_files"}
    ELSE {"upload_files", "upload_new_files"}

\* the files a batch submits: every listed file, or the first 10 of the
\* reversed listing for the S3 uploader
Batches(kind, files) ==
    IF kind \in {"upload_files", "upload_new_files"}
    THEN {S \in SUBSET files : Cardinality(S) = Min(UploadSlice, Cardinality(files))}
    ELSE {files}

(***************************************************************************)
(* The locals of one task when it is submitted.                            *)
(***************************************************************************)
NoPre == [sorted |-> FALSE, err |-> FALSE, exists |-> FALSE]

\* the locals sort_file / sort_new_file read from file_info (lines 186-190)
sort_task(file_info) ==
    [pc |-> "pending",
     lkey |-> file_info.source_key,
     dkey |-> get_raw_key(file_info.raw_key_suffix),
     is_error |-> file_info.is_error,
     policy |-> file_info.policy,
     in_uploaded |-> FALSE,
     pre |-> NoPre, ops |-> {}, via |-> "none"]

\* the locals upload_file reads from file_info (lines 132-142)
upload_task(file_info) ==
    [pc |-> "pending",
     lkey |-> file_info.file_name,
     dkey |-> file_info.destination_key,
     is_error |-> file_info.error_condition,
     policy |-> file_info.policy,
     in_uploaded |-> FALSE,
     pre |-> NoPre, ops |-> {}, via |-> "none"]

NewTask(kind, filename) ==
    IF kind \in {"sort_files", "sort_new_files"}
    THEN sort_task(get_file_info(filename))
    ELSE upload_task(s3_get_file_info(filename))

\* the locals of the task of every file a listing can hold, per batch operation
submitted == [kind \in Kinds("abstract") \cup Kinds("s3") |->
                [filename \in FileNames \cup MoreNames |-> NewTask(kind, filename)]]

\* the first statement a worker runs for a task of the batch
EntryPc(kind) ==
    CASE kind = "sort_files" -> "sf_if"
      [] kind = "sort_new_files" -> "snf_if_ledger"
      [] OTHER -> "up_read_uploaded"

\* upload_new_file / reupload_file
check_exists_flag(kind) == kind = "upload_new_files"

(***************************************************************************)
(* The branches of sort_file (lines 191-194).                              *)
(***************************************************************************)
\* sort_file without the "not is_error_file" test
sf_if_branch_unchecked(in_error_files, is_error_file) ==
    IF ~in_error_files THEN "sf_write" ELSE "sf_elif"

\* if source_key not in self.get_error_files() and not is_error_file
sf_if_branch(in_error_files, is_error_file) ==
    IF ~in_error_files /\ ~is_error_file THEN "sf_write" ELSE "sf_elif"

\* sort_file appending an error file without reading the error ledger
sf_elif_branch_unchecked(in_error_files, is_error_file) ==
    IF is_error_file THEN "add_error_open" ELSE "done"

\* elif source_key not in self.get_error_files() and is_error_file
sf_elif_branch(in_error_files, is_error_file) ==
    IF ~in_error_files /\ is_error_file THEN "add_error_open" ELSE "done"

\* write_source_file_to_raw_file raised: sort_file has no handler
sf_write_raised == "failed"

(***************************************************************************)
(* The branches of sort_new_file (lines 203-206); "and" short-circuits.    *)
(***************************************************************************)
\* sort_new_file without the ledger test before the destination check
snf_if_ledger_branch_eager(in_sorted_files) == "snf_if_exists"

\* if source_key not in self.get_sorted_files() and ...
snf_if_ledger_branch(in_sorted_files) ==
    IF ~in_sorted_files THEN "snf_if_exists" ELSE "snf_elif_ledger"

\* sort_new_file without the destination check before sort_file
snf_if_exists_branch_always(exists) == "sf_if"

\* sort_new_file recording the file instead of transferring it
snf_if_exists_branch_recorded(exists) ==
    IF ~exists THEN "add_sorted_open" ELSE "snf_elif_ledger"

\* ... and not self.check_raw_key_exists(raw_key): self.sort_file(file_dict)
snf_if_exists_branch(exists) ==
    IF ~exists THEN "sf_if" ELSE "snf_elif_ledger"

\* sort_new_file without its elif branch
snf_elif_ledger_branch_absent(in_sorted_files) == "done"

\* elif source_key not in self.get_sorted_files() and ...
snf_elif_ledger_branch(in_sorted_files) ==
    IF ~in_sorted_files THEN "snf_elif_exists" ELSE "done"

\* sort_new_file with the reconciliation test inverted
snf_elif_exists_branch_inverted(exists) ==
    IF ~exists THEN "add_sorted_open" ELSE "done"

\* ... and self.check_raw_key_exists(raw_key): self.add_to_sorted_files(source_key)
snf_elif_exists_branch(exists) ==
    IF exists THEN "add_sorted_open" ELSE "done"

(***************************************************************************)
(* The branches of S3FileSorter.upload_file (lines 143-160).               *)
(***************************************************************************)
\* copy_condition, then error_condition
up_copy_branch(in_uploaded, in_error_files, error_condition) ==
    IF in_uploaded \/ in_error_files THEN "done"
    ELSE IF error_condition THEN "add_error_open"
    ELSE "up_exists"

\* elif self.check_file_exists(destination_key) and check_exists
up_exists_branch(exists, check_exists) ==
    IF exists /\ check_exists THEN "add_uploaded_open" ELSE "up_upload"

\* upload_file recording the file after a failed upload
up_upload_except_recorded == "add_uploaded_open"

\* except NoCredentialsError / except ClientError: a message is printed
up_upload_except == "done"

(***************************************************************************)
(* Initial state: a sorter has been constructed over a source tree; the    *)
(* ledger files exist and are empty; the store may already hold objects.   *)
(***************************************************************************)
InitialStores ==
    {{}, {get_raw_key(get_info_from_filename(FN_Tournament).raw_key_suffix)}}

NoHist ==
    [repairs |-> 0, resets |-> 0, truncated |-> 0, renamed |-> FALSE, failed |-> FALSE,
     before |-> {}, retried |-> {}, prev |-> NoRun]

Init ==
    /\ sorter \in {"abstract", "s3"}
    /\ tree \in {S \in SUBSET FileNames : Cardinality(S) \in 1..MaxFiles}
    /\ objects \in InitialStores
    /\ errorFiles = EmptyBag
    /\ sortedFiles = EmptyBag
    /\ uploadedFiles = EmptyBag
    /\ orch = IdleOrch
    /\ tasks = NoTasks
    /\ runs = 0
    /\ hist = NoHist
    /\ classified = NotClassifying

(***************************************************************************)
(* The calling thread: sort_files, sort_new_files, upload_files,           *)
(* upload_new_files.                                                       *)
(***************************************************************************)
\* the call, and its first statement self.correct_source_files()
Begin(kind) ==
    /\ orch.pc = "idle"
    /\ runs < MaxRuns
    /\ kind \in Kinds(sorter)
    /\ \E repaired \in correct_source_files(tree) :
         /\ tree' = repaired
         /\ hist' = [hist EXCEPT !.repairs = 1, !.resets = 0, !.truncated = 0,
                                 !.renamed = (repaired # tree), !.failed = FALSE,
                                 !.before = tree]
    /\ orch' = [pc |-> IF kind = "sort_files" THEN "reset" ELSE "list",
                kind |-> kind, collected |-> {}]
    /\ runs' = runs + 1
    /\ UNCHANGED <<classified, sorter, objects, errorFiles, sortedFiles, uploadedFiles, tasks>>

\* self.reset_sorted_files() of sort_files
Reset ==
    /\ orch.pc = "reset"
    /\ sortedFiles' = reset_sorted_files(sortedFiles)
    /\ hist' = [hist EXCEPT !.resets = @ + 1, !.truncated = BagCardinality(sortedFiles)]
    /\ orch' = [orch EXCEPT !.pc = "list"]
    /\ UNCHANGED <<classified, sorter, tree, objects, errorFiles, uploadedFiles, tasks, runs>>

\* the listing and the executor.submit of every file of it
Dispatch ==
    /\ orch.pc = "list"
    /\ \E batch \in Batches(orch.kind, tree) :
         tasks' = [f \in batch |-> submitted[orch.kind][f]]
    /\ orch' = [orch EXCEPT !.pc = "collect"]
    /\ UNCHANGED <<classified, sorter, tree, objects, errorFiles, sortedFiles, uploadedFiles, runs, hist>>

\* the loop left at the first future yielded
AllCollected_first(o, ts) == o.collected # {} \/ DOMAIN ts = {}

\* as_completed has yielded every future
AllCollected(o, ts) == o.collected = DOMAIN ts

\* for future in as_completed(future_to_file): future.result()
Collect(f) ==
    /\ orch.pc = "collect"
    /\ f \in DOMAIN tasks \ orch.collected
    /\ tasks[f].pc \in Finished
    /\ orch' = IF tasks[f].pc = "failed"
               THEN [orch EXCEPT !.pc = "unwind"]
               ELSE [orch EXCEPT !.collected = @ \cup {f}]
    /\ UNCHANGED <<classified, sorter, tree, objects, errorFiles, sortedFiles, uploadedFiles, tasks, runs, hist>>

\* the loop is over: the with block ends and the completion message is printed
Report ==
    /\ orch.pc = "collect"
    /\ AllCollected(orch, tasks)
    /\ orch' = [orch EXCEPT !.pc = "reported"]
    /\ UNCHANGED <<classified, sorter, tree, objects, errorFiles, sortedFiles, uploadedFiles, tasks, runs, hist>>

\* result() raised: the executor's __exit__ waits for every task, then the
\* exception leaves the batch operation
Unwind ==
    /\ orch.pc = "unwind"
    /\ \A f \in DOMAIN tasks : tasks[f].pc \in Finished
    /\ orch' = [orch EXCEPT !.pc = "raised"]
    /\ UNCHANGED <<classified, sorter, tree, objects, errorFiles, sortedFiles, uploadedFiles, tasks, runs, hist>>

\* the batch operation has returned or raised; the sorter can be called again
Return ==
    /\ orch.pc \in {"reported", "raised"}
    /\ hist' = [hist EXCEPT !.prev = [kind |-> orch.kind,
                                      clean |-> orch.pc = "reported" /\ ~hist.failed]]
    /\ orch' = IdleOrch
    /\ tasks' = NoTasks
    /\ UNCHANGED <<classified, sorter, tree, objects, errorFiles, sortedFiles, uploadedFiles, runs>>

(***************************************************************************)
(* The worker threads.                                                     *)
(***************************************************************************)
Running == {f \in DOMAIN tasks : tasks[f].pc \notin Finished \cup Waiting}
PoolAlive == orch.pc \in {"collect", "unwind"}
LedgerOf(kind) == IF kind \in Kinds("s3") THEN uploadedFiles ELSE sortedFiles

Step(f, rec) ==
    /\ tasks' = [tasks EXCEPT ![f] = rec]
    /\ UNCHANGED <<classified, sorter, tree, orch, runs>>

\* a free worker takes the task
StartTask(f) ==
    /\ PoolAlive
    /\ tasks[f].pc = "pending"
    /\ Cardinality(Running) < max_workers(orch.kind)
    /\ Step(f, [tasks[f] EXCEPT
                  !.pc = EntryPc(orch.kind),
                  !.via = IF orch.kind = "sort_files" THEN "A" ELSE "none",
                  !.pre = [sorted |-> InLedger(tasks[f].lkey, LedgerOf(orch.kind)),
                           err |-> InLedger(tasks[f].lkey, errorFiles),
                           exists |-> tasks[f].dkey \in objects]])
    /\ UNCHANGED <<objects, errorFiles, sortedFiles, uploadedFiles, hist>>

\* sort_file, line 191
SfIf(f) ==
    /\ PoolAlive
    /\ tasks[f].pc = "sf_if"
    /\ Step(f, [tasks[f] EXCEPT
                  !.pc = sf_if_branch(InLedger(tasks[f].lkey, errorFiles), tasks[f].is_error)])
    /\ UNCHANGED <<objects, errorFiles, sortedFiles, uploadedFiles, hist>>

\* sort_file, line 192: self.write_source_file_to_raw_file(source_key, raw_key)
SfWrite(f) ==
    /\ PoolAlive
    /\ tasks[f].pc = "sf_write"
    /\ \E ok \in WriteOutcomes :
         IF ok
         THEN /\ objects' = objects \cup {tasks[f].dkey}
              /\ Step(f, [tasks[f] EXCEPT !.pc = "done", !.ops = @ \cup {"write"}])
              /\ hist' = hist
         ELSE /\ objects' = objects
              /\ Step(f, [tasks[f] EXCEPT !.pc = sf_write_raised,
                                          !.ops = @ \cup {"write", "write_failed"}])
              /\ hist' = [hist EXCEPT !.failed = TRUE, !.retried = @ \cup {tasks[f].lkey}]
    /\ UNCHANGED <<errorFiles, sortedFiles, uploadedFiles>>

\* sort_file, line 193
SfElif(f) ==
    /\ PoolAlive
    /\ tasks[f].pc = "sf_elif"
    /\ Step(f, [tasks[f] EXCEPT
                  !.pc = sf_elif_branch(InLedger(tasks[f].lkey, errorFiles), tasks[f].is_error)])
    /\ UNCHANGED <<objects, errorFiles, sortedFiles, uploadedFiles, hist>>

\* add_to_error_files: open(file_location, "a")
AddToErrorFilesOpen(f) ==
    /\ PoolAlive
    /\ tasks[f].pc = "add_error_open"
    /\ Step(f, [tasks[f] EXCEPT !.pc = "add_error_write"])
    /\ UNCHANGED <<objects, errorFiles, sortedFiles, uploadedFiles, hist>>

\* add_to_error_files: file.write(f"{source_key}\n") and the close
AddToErrorFilesWrite(f) ==
    /\ PoolAlive
    /\ tasks[f].pc = "add_error_write"
    /\ errorFiles' = AppendLine(errorFiles, tasks[f].lkey)
    /\ Step(f, [tasks[f] EXCEPT !.pc = "done", !.ops = @ \cup {"add_error"}])
    /\ UNCHANGED <<objects, sortedFiles, uploadedFiles, hist>>

\* sort_new_file, line 203, left operand
SnfIfLedger(f) ==
    /\ PoolAlive
    /\ tasks[f].pc = "snf_if_ledger"
    /\ LET in_sorted == InLedger(tasks[f].lkey, sortedFiles)
       IN  Step(f, [tasks[f] EXCEPT !.pc = snf_if_ledger_branch(in_sorted),
                                    !.via = IF in_sorted THEN "skip" ELSE @])
    /\ UNCHANGED <<objects, errorFiles, sortedFiles, uploadedFiles, hist>>

\* sort_new_file, line 203, right operand, and the call of sort_file
SnfIfExists(f) ==
    /\ PoolAlive
    /\ tasks[f].pc = "snf_if_exists"
    /\ LET next == snf_if_exists_branch(check_raw_key_exists(tasks[f].dkey, objects))
       IN  Step(f, [tasks[f] EXCEPT !.pc = next,
                                    !.ops = @ \cup {"exists"},
                                    !.via = IF next = "sf_if" THEN "A" ELSE @])
    /\ UNCHANGED <<objects, errorFiles, sortedFiles, uploadedFiles, hist>>

\* sort_new_file, line 205, left operand
SnfElifLedger(f) ==
    /\ PoolAlive
    /\ tasks[f].pc = "snf_elif_ledger"
    /\ Step(f, [tasks[f] EXCEPT
                  !.pc = snf_elif_ledger_branch(InLedger(tasks[f].lkey, sortedFiles))])
    /\ UNCHANGED <<objects, errorFiles, sortedFiles, uploadedFiles, hist>>

\* sort_new_file, line 205, right operand
SnfElifExists(f) ==
    /\ PoolAlive
    /\ tasks[f].pc = "snf_elif_exists"
    /\ LET next == snf_elif_exists_branch(check_raw_key_exists(tasks[f].dkey, objects))
       IN  Step(f, [tasks[f] EXCEPT !.pc = next,
                                    !.ops = @ \cup {"exists"},
                                    !.via = IF next = "add_sorted_open" THEN "reconcile" ELSE @])
    /\ UNCHANGED <<objects, errorFiles, sortedFiles, uploadedFiles, hist>>

\* add_to_sorted_files: open(file_location, "a")
AddToSortedFilesOpen(f) ==
    /\ PoolAlive
    /\ tasks[f].pc = "add_sorted_open"
    /\ Step(f, [tasks[f] EXCEPT !.pc = "add_sorted_write"])
    /\ UNCHANGED <<objects, errorFiles, sortedFiles, uploadedFiles, hist>>

\* add_to_sorted_files: file.write(f"{source_key}\n") and the close
AddToSortedFilesWrite(f) ==
    /\ PoolAlive
    /\ tasks[f].pc = "add_sorted_write"
    /\ sortedFiles' = AppendLine(sortedFiles, tasks[f].lkey)
    /\ Step(f, [tasks[f] EXCEPT !.pc = "done", !.ops = @ \cup {"add_sorted"}])
    /\ UNCHANGED <<objects, errorFiles, uploadedFiles, hist>>

\* upload_file, line 133: uploaded_files = self.get_uploaded_files() if check_exists else []
UpReadUploaded(f) ==
    /\ PoolAlive
    /\ tasks[f].pc = "up_read_uploaded"
    /\ Step(f, [tasks[f] EXCEPT
                  !.pc = "up_read_errors",
                  !.in_uploaded = check_exists_flag(orch.kind)
                                     /\ InLedger(tasks[f].lkey, uploadedFiles)])
    /\ UNCHANGED <<objects, errorFiles, sortedFiles, uploadedFiles, hist>>

\* upload_file, lines 134-146: error_files = self.get_error_files(), copy_condition
UpReadErrors(f) ==
    /\ PoolAlive
    /\ tasks[f].pc = "up_read_errors"
    /\ LET in_error_files == InLedger(tasks[f].lkey, errorFiles)
       IN  Step(f, [tasks[f] EXCEPT
                  !.pc = up_copy_branch(tasks[f].in_uploaded, in_error_files, tasks[f].is_error),
                  !.via = IF tasks[f].in_uploaded \/ in_error_files THEN "skip" ELSE @])
    /\ UNCHANGED <<objects, errorFiles, sortedFiles, uploadedFiles, hist>>

\* upload_file, line 149: self.check_file_exists(destination_key) and check_exists
UpExists(f) ==
    /\ PoolAlive
    /\ tasks[f].pc = "up_exists"
    /\ LET next == up_exists_branch(check_file_exists(tasks[f].dkey, objects),
                                    check_exists_flag(orch.kind))
       IN  Step(f, [tasks[f] EXCEPT !.pc = next,
                                    !.ops = @ \cup {"exists"},
                                    !.via = IF next = "add_uploaded_open" THEN "reconcile" ELSE "A"])
    /\ UNCHANGED <<objects, errorFiles, sortedFiles, uploadedFiles, hist>>

\* upload_file, lines 153-160: self.s3.upload_file(...) in its try block
UpUpload(f) ==
    /\ PoolAlive
    /\ tasks[f].pc = "up_upload"
    /\ \E ok \in WriteOutcomes :
         IF ok
         THEN /\ objects' = objects \cup {tasks[f].dkey}
              /\ Step(f, [tasks[f] EXCEPT !.pc = "add_uploaded_open", !.ops = @ \cup {"write"}])
              /\ hist' = hist
         ELSE /\ objects' = objects
              /\ Step(f, [tasks[f] EXCEPT !.pc = up_upload_except,
                                          !.ops = @ \cup {"write", "write_failed"}])
              /\ hist' = [hist EXCEPT !.failed = TRUE, !.retried = @ \cup {tasks[f].lkey}]
    /\ UNCHANGED <<errorFiles, sortedFiles, uploadedFiles>>

\* add_to_uploaded_files: open(file_location, "a")
AddToUploadedFilesOpen(f) ==
    /\ PoolAlive
    /\ tasks[f].pc = "add_uploaded_open"
    /\ Step(f, [tasks[f] EXCEPT !.pc = "add_uploaded_write"])
    /\ UNCHANGED <<objects, errorFiles, sortedFiles, uploadedFiles, hist>>

\* add_to_uploaded_files: file.write(f"{filename}\n") and the close
AddToUploadedFilesWrite(f) ==
    /\ PoolAlive
    /\ tasks[f].pc = "add_uploaded_write"
    /\ uploadedFiles' = AppendLine(uploadedFiles, tasks[f].lkey)
    /\ Step(f, [tasks[f] EXCEPT !.pc = "done", !.ops = @ \cup {"add_uploaded"}])
    /\ UNCHANGED <<objects, errorFiles, sortedFiles, hist>>

(***************************************************************************)
(* The specification.                                                      *)
(***************************************************************************)
Next ==
    \/ \E kind \in Kinds(sorter) : Begin(kind)
    \/ Reset
    \/ Dispatch
    \/ \E f \in DOMAIN tasks : StartTask(f)
    \/ \E f \in DOMAIN tasks : SfIf(f)
    \/ \E f \in DOMAIN tasks : SfWrite(f)
    \/ \E f \in DOMAIN tasks : SfElif(f)
    \/ \E f \in DOMAIN tasks : AddToErrorFilesOpen(f)
    \/ \E f \in DOMAIN tasks : AddToErrorFilesWrite(f)
    \/ \E f \in DOMAIN tasks : SnfIfLedger(f)
    \/ \E f \in DOMAIN tasks : SnfIfExists(f)
    \/ \E f \in DOMAIN tasks : SnfElifLedger(f)
    \/ \E f \in DOMAIN tasks : SnfElifExists(f)
    \/ \E f \in DOMAIN tasks : AddToSortedFilesOpen(f)
    \/ \E f \in DOMAIN tasks : AddToSortedFilesWrite(f)
    \/ \E f \in DOMAIN tasks : UpReadUploaded(f)
    \/ \E f \in DOMAIN tasks : UpReadErrors(f)
    \/ \E f \in DOMAIN tasks : UpExists(f)
    \/ \E f \in DOMAIN tasks : UpUpload(f)
    \/ \E f \in DOMAIN tasks : AddToUploadedFilesOpen(f)
    \/ \E f \in DOMAIN tasks : AddToUploadedFilesWrite(f)
    \/ \E f \in DOMAIN tasks : Collect(f)
    \/ Report
    \/ Unwind
    \/ Return

Spec == Init /\ [][Next]_vars

(***************************************************************************)
(* Properties.                                                             *)
(***************************************************************************)
Appends == {"add_error", "add_sorted", "add_uploaded"}
InSortFile == {"sf_if", "sf_write", "sf_elif", "add_error_open", "add_error_write"}
Abstract == sorter = "abstract"
TaskIds == DOMAIN tasks

\* C1: the gateway write is never invoked for a file whose metadata marks
\* it an error file; when sort_file (Pipeline A) processes an error file whose
\* source key is not in the error ledger, it appends the key to the error
\* ledger and performs no gateway operation.
C1_ErrorFileNeverWritten ==
    Abstract =>
      \A f \in TaskIds :
        tasks[f].is_error =>
          /\ "write" \notin tasks[f].ops
          /\ tasks[f].pc # "sf_write"
          /\ (tasks[f].pc \in Finished /\ tasks[f].via = "A" /\ ~tasks[f].pre.err) =>
                /\ tasks[f].pc = "done"
                /\ InLedger(tasks[f].lkey, errorFiles)
                /\ tasks[f].ops \ {"exists"} = {"add_error"}
                /\ (orch.kind = "sort_files" => tasks[f].ops = {"add_error"})

\* the Omaha tournament file has gone through sort_file into the error ledger
C1_Witness ==
    /\ Abstract
    /\ \E f \in TaskIds :
         /\ f = FN_OmahaTournament
         /\ get_info_from_filename(f).is_tournament = "True"
         /\ tasks[f].pc = "done"
         /\ tasks[f].via = "A"
         /\ "add_error" \in tasks[f].ops

\* a sort_new_files run that directly follows a sort_new_files run in which
\* every write succeeded, over a tree the repair pass left as it was
SecondSortNewRun ==
    /\ Abstract
    /\ orch.kind = "sort_new_files"
    /\ hist.prev.kind = "sort_new_files"
    /\ hist.prev.clean
    /\ ~hist.renamed

\* C2 as stated: the second of two sort_new_files runs performs no gateway
\* write, and every file of it is resolved by the session-ledger
\* short-circuit or by the destination-exists reconciliation.
C2_SecondRunAllShortCircuitOrReconciled ==
    SecondSortNewRun =>
      \A f \in TaskIds :
        /\ "write" \notin tasks[f].ops
        /\ tasks[f].pc = "done" => tasks[f].via \in {"skip", "reconcile"}

\* C2 amended: the second of two sort_new_files runs performs no gateway
\* write; every file that is not an error file is resolved by the
\* short-circuit or by the reconciliation; an error file resolved by neither
\* re-enters sort_file, which finds it in the error ledger and does nothing.
C2_SecondRunNoWrite ==
    SecondSortNewRun =>
      \A f \in TaskIds :
        /\ "write" \notin tasks[f].ops
        /\ tasks[f].pc \notin {"sf_write", "failed"}
        /\ tasks[f].pc = "done" =>
             \/ tasks[f].via \in {"skip", "reconcile"}
             \/ /\ tasks[f].is_error
                /\ tasks[f].via = "A"
                /\ tasks[f].pre.err
                /\ tasks[f].ops = {"exists"}

\* the second run has reported, and reconciled a file the first run wrote
C2_Witness ==
    /\ SecondSortNewRun
    /\ orch.pc = "reported"
    /\ \E f \in TaskIds :
         /\ ~tasks[f].is_error
         /\ tasks[f].via = "reconcile"
         /\ tasks[f].dkey \notin UNION InitialStores

\* C3: a transfer failure raised by one file's gateway write does not abort
\* the batch nor leave it as an exception: every task runs to completion and
\* the batch reports completion.
C3_FailureDoesNotAbortBatch ==
    Abstract =>
      \A f \in TaskIds :
        "write_failed" \in tasks[f].ops => orch.pc \notin {"unwind", "raised"}

\* C4: a task whose gateway write failed adds its key to neither the success
\* ledger nor the error ledger.
C4_FailedWriteLeavesLedgers ==
    \A f \in TaskIds :
      "write_failed" \in tasks[f].ops =>
        /\ tasks[f].ops \cap Appends = {}
        /\ tasks[f].pc \in Finished
        /\ InLedger(tasks[f].lkey, errorFiles) = tasks[f].pre.err
        /\ InLedger(tasks[f].lkey, LedgerOf(orch.kind)) = tasks[f].pre.sorted

\* an upload of the S3 sorter has failed and its task has ended
C4_Witness ==
    /\ sorter = "s3"
    /\ \E f \in TaskIds :
         /\ "write_failed" \in tasks[f].ops
         /\ tasks[f].pc = "done"
         /\ ~InLedger(tasks[f].lkey, uploadedFiles)

\* the tasks that have opened a ledger file for append and not yet closed it
InsideAppend(pc) == {f \in TaskIds : tasks[f].pc = pc}

\* C5: ledger mutations are serialized: two tasks are never at the same time
\* inside an append to the same ledger file.
C5_LedgerAppendsSerialized ==
    Abstract =>
      /\ Cardinality(InsideAppend("add_error_write")) <= 1
      /\ Cardinality(InsideAppend("add_sorted_write")) <= 1

\* C6: after sort_file or sort_new_file has processed a play-money, Omaha or
\* positioning file whose source key was in no ledger, the key is in the
\* error ledger and not in the session-sorted ledger, whatever the gateway
\* answers for its destination key.
C6_PolicyFileGoesToErrorLedger ==
    Abstract =>
      \A f \in TaskIds :
        (tasks[f].policy /\ tasks[f].pc = "done"
            /\ ~tasks[f].pre.sorted /\ ~tasks[f].pre.err) =>
          /\ InLedger(tasks[f].lkey, errorFiles)
          /\ ~InLedger(tasks[f].lkey, sortedFiles)

\* C7: in sort_new_file, a file whose source key is not in the
\* session-sorted ledger and whose destination key exists at the gateway has
\* its source key appended to the session-sorted ledger, with no gateway
\* write and no append to the error ledger.
C7_ExistingDestinationReconciled ==
    (Abstract /\ orch.kind = "sort_new_files") =>
      \A f \in TaskIds :
        (tasks[f].pc \notin Waiting /\ ~tasks[f].pre.sorted /\ tasks[f].pre.exists) =>
          /\ tasks[f].pc \notin InSortFile \cup {"failed"}
          /\ tasks[f].ops \subseteq {"exists", "add_sorted"}
          /\ tasks[f].pc = "done" =>
               /\ "add_sorted" \in tasks[f].ops
               /\ InLedger(tasks[f].lkey, sortedFiles)
               /\ InLedger(tasks[f].lkey, errorFiles) = tasks[f].pre.err

\* a sort_new_file task has recorded a file whose destination existed
C7_Witness ==
    /\ Abstract
    /\ orch.kind = "sort_new_files"
    /\ \E f \in TaskIds :
         /\ tasks[f].pc = "done"
         /\ ~tasks[f].pre.sorted
         /\ tasks[f].pre.exists
         /\ "add_sorted" \in tasks[f].ops

\* C8: in sort_new_file, a file whose source key is already in the
\* session-sorted ledger is skipped: no exists check, no write, no append.
C8_SortedFileSkipped ==
    (Abstract /\ orch.kind = "sort_new_files") =>
      \A f \in TaskIds :
        (tasks[f].pc \notin Waiting /\ tasks[f].pre.sorted) =>
          /\ tasks[f].ops = {}
          /\ tasks[f].pc \in {"snf_if_ledger", "snf_elif_ledger", "done"}
          /\ InLedger(tasks[f].lkey, errorFiles) = tasks[f].pre.err

\* a sort_new_file task has ended for a file that was in the session ledger
C8_Witness ==
    /\ Abstract
    /\ orch.kind = "sort_new_files"
    /\ \E f \in TaskIds : tasks[f].pre.sorted /\ tasks[f].pc = "done"

\* C9: a sort_files run truncates the session-sorted ledger exactly once,
\* after the repair pass and before any task is dispatched; right after the
\* reset the ledger contains no key.
C9_ResetOnceBeforeDispatch ==
    (Abstract /\ orch.kind = "sort_files") =>
      /\ hist.repairs = 1
      /\ orch.pc = "reset" => (hist.resets = 0 /\ TaskIds = {})
      /\ orch.pc # "reset" => hist.resets = 1
      /\ orch.pc = "list" =>
           /\ TaskIds = {}
           /\ \A f \in FileNames : ~InLedger(PathJoin(StrRoot, f), sortedFiles)
           /\ sortedFiles = EmptyBag
      /\ \A f \in TaskIds : tasks[f].pc \notin Waiting => ~tasks[f].pre.sorted

\* a sort_files run has just truncated a ledger that held lines
C9_Witness ==
    /\ Abstract
    /\ orch.kind = "sort_files"
    /\ orch.pc = "list"
    /\ hist.truncated > 0

\* C10: the completion message is printed only after every dispatched task
\* has completed.
C10_ReportAfterAllTasks ==
    orch.pc = "reported" => \A f \in TaskIds : tasks[f].pc = "done"

\* a batch of two or more tasks has reported
C10_Witness ==
    /\ orch.pc = "reported"
    /\ Cardinality(TaskIds) >= 2
    /\ \E f \in TaskIds : tasks[f].ops # {}


(***************************************************************************)
(* Source trees larger than the slice of upload_files: the six names of    *)
(* FileNames and the six of MoreNames.                                     *)
(***************************************************************************)
LargeTrees == {S \in SUBSET (FileNames \cup MoreNames) : Cardinality(S) > UploadSlice}

InitLarge ==
    /\ sorter \in {"abstract", "s3"}
    /\ tree \in LargeTrees
    /\ objects \in InitialStores
    /\ errorFiles = EmptyBag
    /\ sortedFiles = EmptyBag
    /\ uploadedFiles = EmptyBag
    /\ orch = IdleOrch
    /\ tasks = NoTasks
    /\ runs = 0
    /\ hist = NoHist
    /\ classified = NotClassifying

\* a batch operation up to the submission of its tasks
NextSubmit ==
    \/ \E kind \in Kinds(sorter) : Begin(kind)
    \/ Reset
    \/ Dispatch

SpecSubmit == InitLarge /\ [][NextSubmit]_vars

\* C11: every batch operation submits the pipeline for every .txt file the
\* source tree holds after the repair pass, however many files there are.
\* S3FileSorter submits at most the first 10 of the reversed listing.
C11_EveryDiscoveredFileSubmitted ==
    orch.pc = "collect" => DOMAIN tasks = tree

\* get_file_info of every file a listing can hold (sort_file, lines 186-190)
file_info_of == submitted["sort_new_files"]

\* the files whose source key is key
FilesOfKey(key) == {fn \in FileNames : file_info_of[fn].lkey = key}

\* C12: in every reachable state, whatever step each task is at, each source
\* key in the session-sorted ledger belongs to a file whose destination key
\* exists at the gateway, and each source key in the error ledger belongs to
\* a file that classifies as an error file.
C12_LedgerEntriesValid ==
    Abstract =>
        /\ \A key \in BagToSet(sortedFiles) :
             \E fn \in FilesOfKey(key) : file_info_of[fn].dkey \in objects
        /\ \A key \in BagToSet(errorFiles) :
             \E fn \in FilesOfKey(key) : file_info_of[fn].is_error

\* both ledgers hold a line while a task of the batch is between two steps
C12_Witness ==
    /\ Abstract
    /\ sortedFiles # EmptyBag
    /\ errorFiles # EmptyBag
    /\ \E f \in TaskIds : tasks[f].pc \notin Finished \cup Waiting

(***************************************************************************)
(* The classifier on its own: get_info_from_filename is a static method,   *)
(* called with the name of a listed .txt file.  The names are built from   *)
(* at most MaxParts fragments that the three patterns and the substring    *)
(* tests react to.                                                         *)
(***************************************************************************)
MaxParts == 3

Parts == {
    <<"2","0","2","4","0","1","1","5","_">>,
    <<"(","1","2",")","_">>,
    <<"(","1","2",")">>,
    <<"T","a","b","0","5","_">>,
    <<"_">>,
    <<" ">>,
    StrPlay, StrOmahaLower, StrOmahaUpper, StrPositioning, StrSummary }

RECURSIVE Concat(_)
Concat(parts) == IF parts = <<>> THEN <<>> ELSE Head(parts) \o Concat(Tail(parts))

ListedNames ==
    {Concat(parts) \o StrTxt : parts \in UNION {[1..n -> Parts] : n \in 0..MaxParts}}

InitClassify ==
    /\ sorter \in {"abstract", "s3"}
    /\ \E filename \in ListedNames :
         classified = [NotClassifying EXCEPT !.filename = filename]
    /\ tree = {}
    /\ objects = {}
    /\ errorFiles = EmptyBag
    /\ sortedFiles = EmptyBag
    /\ uploadedFiles = EmptyBag
    /\ orch = IdleOrch
    /\ tasks = NoTasks
    /\ runs = 0
    /\ hist = NoHist

Unclassified == <<sorter, tree, objects, errorFiles, sortedFiles, uploadedFiles, orch, tasks,
                  runs, hist>>

\* AbstractFileSorter.get_info_from_filename(filename)
Classify ==
    /\ sorter = "abstract"
    /\ ~classified.done
    /\ classified' = [classified EXCEPT
                        !.done = TRUE,
                        !.info = get_info_from_filename(classified.filename)]
    /\ UNCHANGED Unclassified

\* S3FileSorter.get_file_info(file_dict) and the flags upload_file derives
ClassifyS3 ==
    /\ sorter = "s3"
    /\ ~classified.done
    /\ classified' = [classified EXCEPT
                        !.done = TRUE,
                        !.s3_info = s3_get_file_info(classified.filename)]
    /\ UNCHANGED Unclassified

NextClassify == Classify \/ ClassifyS3

SpecClassify == InitClassify /\ [][NextClassify]_vars

\* the filename the classifier was called with, and what the patterns and
\* the substring tests find in it
Classified(cls) == classified.done /\ sorter = cls
IsTournamentName == tournament_pattern(classified.filename).found
IsCashName == cash_game_pattern(classified.filename).found
IsLegacyName == cash_game_pattern2(classified.filename).found
HasPolicyWord ==
    \/ Contains(classified.filename, StrPlay)
    \/ Contains(classified.filename, StrOmahaLower)
    \/ Contains(classified.filename, StrOmahaUpper)
    \/ Contains(classified.filename, StrPositioning)

C14_PatternPriority ==
    Classified("abstract") =>
        LET info == classified.info
            match1 == tournament_pattern(classified.filename)
            match2 == cash_game_pattern(classified.filename)
            match3 == cash_game_pattern2(classified.filename)
            legacy_id == StrSlash \o StrZeros \o StrTxt
        IN  /\ match1.found =>
                 /\ info.is_tournament = "True"
                 /\ EndsWith(info.raw_key_suffix, StrSlash \o match1.g1 \o StrTxt)
                 /\ ~Contains(info.raw_key_suffix, StrCash)
            /\ ~match1.found /\ match2.found =>
                 /\ info.is_tournament = "False"
                 /\ Len(match2.g2) = 2
                 /\ EndsWith(info.raw_key_suffix,
                             StrCash \o ReplaceSpaces(Strip(match2.g1)) \o StrSlash
                                 \o match2.g2 \o StrTxt)
            /\ ~match1.found /\ ~match2.found /\ match3.found =>
                 /\ info.is_tournament = "False"
                 /\ EndsWith(info.raw_key_suffix,
                             StrCash \o Strip(match3.g4) \o legacy_id)
            /\ EndsWith(info.raw_key_suffix, legacy_id) =>
                 ~match1.found /\ ~match2.found /\ match3.found

\* a name all three patterns match has been classified a tournament
C14_Witness ==
    /\ Classified("abstract")
    /\ IsTournamentName /\ IsCashName /\ IsLegacyName
    /\ classified.info.is_tournament = "True"

\* C15: for every filename the destination suffix is null exactly when none
\* of the three patterns matches; then the category is unknown and the file
\* is an error file whatever its play-money, Omaha and positioning flags
\* are; in every other case the suffix is a key, not null.
C15_NullSuffixIffNoMatch ==
    Classified("abstract") =>
        LET info == classified.info
            unmatched == ~IsTournamentName /\ ~IsCashName /\ ~IsLegacyName
        IN  /\ info.raw_key_suffix = None <=> unmatched
            /\ unmatched => info.is_tournament = "None" /\ info.is_error
            /\ ~unmatched =>
                 /\ info.is_tournament \in {"True", "False"}
                 /\ EndsWith(info.raw_key_suffix, StrTxt)

\* a name no pattern matches and without a policy word is an error file
C15_Witness ==
    /\ Classified("abstract")
    /\ ~IsTournamentName /\ ~IsCashName /\ ~IsLegacyName
    /\ ~HasPolicyWord
    /\ classified.info.raw_key_suffix = None
    /\ classified.info.is_error

\* the listed files os.replace destroys: those that already carry the name
\* a corrupted file is renamed to (correct_source_files, line 59)
Overwritten(files) ==
    {f \in files : \E base \in files : StartsWith(base, StrSummary) /\ SliceFrom(base, 7) = f}

\* C16: the repair pass runs once per batch operation, before the listing
\* the tasks are made from: every file whose name starts with "summary" is
\* renamed to its name without the first 7 characters, every other file is
\* left unchanged, and the files classified carry the names after repair.
C16_RepairBeforeEnumeration ==
    orch.pc # "idle" =>
        /\ hist.repairs = 1
        /\ \A fn \in hist.before :
             IF StartsWith(fn, StrSummary)
             THEN SliceFrom(fn, 7) \in tree /\ fn \notin tree
             ELSE fn \in tree /\ fn \notin Overwritten(hist.before)
        /\ orch.pc # "list" => DOMAIN tasks \subseteq tree

\* C19: the repair pass loses no file: the tree holds as many .txt files
\* after correct_source_files as before it, a rename never overwriting an
\* existing file, and afterwards no listed name starts with "summary".
C19_RepairLosesNoFile ==
    runs > 0 =>
        /\ Cardinality(tree) = Cardinality(hist.before)
        /\ \A fn \in tree : ~StartsWith(fn, StrSummary)

\* C17: a sort_new_files run that transfers a file successfully through
\* sort_file has that file's source key in the session-sorted ledger when
\* the run ends, whereas sort_file run by sort_files appends nothing to any
\* ledger on a successful write.
C17_NewFilesRecordSuccess ==
    Abstract /\ orch.pc = "reported" =>
        \A f \in TaskIds :
            "write" \in tasks[f].ops /\ "write_failed" \notin tasks[f].ops =>
                IF orch.kind = "sort_new_files"
                THEN InLedger(tasks[f].lkey, sortedFiles)
                ELSE tasks[f].ops \cap Appends = {}

\* C20: in AbstractFileSorter, after any sequence of sort_files and
\* sort_new_files runs that do not overlap, the error ledger holds each
\* source key at most once: a file already in the error ledger when its
\* task starts is neither appended again nor written to the gateway.
C20_ErrorLedgerHoldsKeyOnce ==
    Abstract =>
        /\ \A key \in BagToSet(errorFiles) : CopiesIn(key, errorFiles) <= 1
        /\ \A f \in TaskIds :
             tasks[f].pre.err => tasks[f].ops \cap {"add_error", "write"} = {}

\* a task has run to its end for a file a previous run put in the error ledger
C20_Witness ==
    /\ Abstract
    /\ \E f \in TaskIds :
         /\ tasks[f].pre.err
         /\ tasks[f].pc = "done"
         /\ tasks[f].via = "A"
         /\ CopiesIn(tasks[f].lkey, errorFiles) = 1

(***************************************************************************)
(* sort_new_files called again and again on a subclass of                  *)
(* AbstractFileSorter: the caller starts a new run whenever the previous   *)
(* one has returned or raised, the worker threads keep running, and a      *)
(* write that is attempted again and again succeeds at some attempt.       *)
(***************************************************************************)
InitRepeated == Init /\ sorter = "abstract"

\* sort_new_files(), any number of times
SortNewFilesAgain ==
    /\ orch.pc = "idle"
    /\ \E repaired \in correct_source_files(tree) :
         /\ tree' = repaired
         /\ hist' = [hist EXCEPT !.repairs = 1, !.resets = 0, !.truncated = 0,
                                 !.renamed = (repaired # tree), !.failed = FALSE,
                                 !.before = tree]
    /\ orch' = [pc |-> "list", kind |-> "sort_new_files", collected |-> {}]
    /\ runs' = Min(runs + 1, MaxRuns)
    /\ UNCHANGED <<classified, sorter, objects, errorFiles, sortedFiles, uploadedFiles, tasks>>

NextRepeated ==
    \/ SortNewFilesAgain
    \/ Dispatch
    \/ \E f \in DOMAIN tasks : StartTask(f)
    \/ \E f \in DOMAIN tasks : SnfIfLedger(f)
    \/ \E f \in DOMAIN tasks : SnfIfExists(f)
    \/ \E f \in DOMAIN tasks : SnfElifLedger(f)
    \/ \E f \in DOMAIN tasks : SnfElifExists(f)
    \/ \E f \in DOMAIN tasks : AddToSortedFilesOpen(f)
    \/ \E f \in DOMAIN tasks : AddToSortedFilesWrite(f)
    \/ \E f \in DOMAIN tasks : SfIf(f)
    \/ \E f \in DOMAIN tasks : SfWrite(f)
    \/ \E f \in DOMAIN tasks : SfElif(f)
    \/ \E f \in DOMAIN tasks : AddToErrorFilesOpen(f)
    \/ \E f \in DOMAIN tasks : AddToErrorFilesWrite(f)
    \/ \E f \in DOMAIN tasks : Collect(f)
    \/ Report
    \/ Unwind
    \/ Return

\* write_source_file_to_raw_file returns for the file f
WriteSucceeds(f) == SfWrite(f) /\ tasks'[f].pc = "done"

SpecRepeated ==
    /\ InitRepeated
    /\ [][NextRepeated]_vars
    /\ WF_vars(NextRepeated)
    /\ SF_vars(\E f \in DOMAIN tasks : WriteSucceeds(f))

\* the file's destination key is at the gateway and its source key is in
\* the session-sorted ledger
Settled(fn) ==
    /\ file_info_of[fn].dkey \in objects
    /\ InLedger(file_info_of[fn].lkey, sortedFiles)

\* no write has been issued by the task the current run has for the file
NotWritten(fn) == fn \in DOMAIN tasks => "write" \notin tasks[fn].ops

\* C18: under repeated sort_new_files runs over an unchanged source tree,
\* with a gateway whose write eventually succeeds, every source file that is
\* not an error file eventually has its destination key at the gateway and
\* its source key in the session-sorted ledger, and from then on no write is
\* issued for it; so a file whose transfer failed is retried by a later run.
C18_FailedTransferRetried ==
    (runs > 0) ~>
        [](\A fn \in tree : ~file_info_of[fn].is_error => Settled(fn) /\ NotWritten(fn))

\* a file whose write failed in an earlier run has reached the gateway and
\* the ledger
C18_Witness ==
    \E fn \in tree :
        /\ file_info_of[fn].lkey \in hist.retried
        /\ ~file_info_of[fn].is_error
        /\ Settled(fn)

=============================================================================
